---- MODULE Spec2Model ----
(***************************************************************************)
(* A model of EasyTweeter.py: the EasyTweeter bot object, its persisted    *)
(* state files (UpdateCheckInterval.ini, latest.ini, followers.txt,        *)
(* favorites.ini) and its operations tweet, checkForUpdates and the five   *)
(* feature checks.  Every operation is one atomic action (the library is   *)
(* single threaded and blocking); the remote (tweepy / twitter) and the    *)
(* overridable hook methods are the environment and are drawn from         *)
(* bounded sets.  The variable "call" records what the operation the      *)
(* client has just called was given, what it did and how it ended, until   *)
(* the client goes on (Return) or its process ends (Restart).              *)
(***************************************************************************)
EXTENDS Integers, Sequences, FiniteSets, TLC

VARIABLES
    api,            \* self.api: FALSE is None, TRUE is a verified tweepy.API
    retries,        \* self.retries
    sleep,          \* self.sleep
    intervalFile,   \* state/UpdateCheckInterval.ini
    latestFile,     \* state/latest.ini
    followersFile,  \* state/followers.txt
    favoritesFile,  \* state/favorites.ini
    call,           \* record of the operation just called (inputs, effects, outcome)
    cadence,        \* history: calls of checkForUpdates since the last real check
    notified        \* history: how often each item of the watched feature was notified

vars == <<api, retries, sleep, intervalFile, latestFile, followersFile,
          favoritesFile, call, cadence, notified>>

(***************************************************************************)
(* Bounds of the model.                                                    *)
(***************************************************************************)
MaxRetries == 3        \* rateLimitRetries is drawn from -1 .. MaxRetries
MaxRateLimited == 3    \* the remote rate-limits at most this many attempts, or all
MaxId == 3             \* remote identifiers are 1 .. MaxId
MaxFeed == 3           \* a remote feed holds at most this many items
MaxInterval == 3       \* runInterval is drawn from -1 .. MaxInterval
MaxFavorites == 2      \* favorite_count is drawn from 0 .. MaxFavorites
MaxPosts == 2          \* the user timeline holds the posts 1 .. MaxPosts at most
MaxOver == 1           \* messages of up to CHARACTER_LIMIT + MaxOver characters

(***************************************************************************)
(* Program constants.                                                      *)
(***************************************************************************)
CHARACTER_LIMIT == 280
DefaultSleep == 960
DefaultRetries == 2
DefaultMaxMessagesLoaded == 50
DefaultMaxReplies == 100

Features == {"Retweets", "DirectMessages", "Replies"}
IDs == 1 .. MaxId

(***************************************************************************)
(* Values.                                                                 *)
(***************************************************************************)
\* "no error": the operation returned normally
OK == "ok"

\* a message handed to tweet: None, or a string of len characters
NoneMessage == [isNone |-> TRUE, len |-> 0]

StringMessage(n) == [isNone |-> FALSE, len |-> n]

Messages ==
    {NoneMessage} \cup
    {StringMessage(n) : n \in {0, 1, CHARACTER_LIMIT}} \cup
    {StringMessage(CHARACTER_LIMIT + n) : n \in 1 .. MaxOver}

\* the states credentials.ini can be in, as connectFromConfig sees them
Credentials == {"valid", "missing", "malformed", "rejected"}

\* A remote answering update_status: the first "limited" attempts (all of
\* them when "always") are answered with a rate-limit error, the next one
\* with "answer"; a published status carries the identifier "id".
AlwaysRateLimited == [always |-> TRUE, limited |-> 0, answer |-> "error", id |-> 0]

TweetRemotes ==
    {AlwaysRateLimited} \cup
    [always : {FALSE}, limited : 0 .. MaxRateLimited, answer : {"error"}, id : {0}] \cup
    [always : {FALSE}, limited : 0 .. MaxRateLimited, answer : {"ok"}, id : 1 .. 2]

\* a status object of the remote, reduced to the attributes the bot reads
Status(i, r, f) == [id |-> i, reply |-> r, favorite_count |-> f]

(***************************************************************************)
(* __init__                                                                *)
(***************************************************************************)
InitSleep(secondsSleepWhenRateLimited) ==
    IF secondsSleepWhenRateLimited < 0 THEN 0 ELSE secondsSleepWhenRateLimited

InitRetries(rateLimitRetries) ==
    IF rateLimitRetries < 1 THEN 1 ELSE rateLimitRetries

(***************************************************************************)
(* connect / connectFromConfig: the error raised ("ok" when none) for      *)
(* each state of the credential file.  self.api is set only on success.    *)
(***************************************************************************)
\* a connect that does not ask the remote to verify the credentials
connectWithoutVerifying(cred) ==
    CASE cred = "missing"   -> "FileNotFoundError"
      [] cred = "malformed" -> "KeyError"
      [] OTHER              -> OK

connectFromConfig(cred) ==
    CASE cred = "missing"   -> "FileNotFoundError"   \* codecs.open raises
      [] cred = "malformed" -> "KeyError"            \* config[...][...] raises
      [] cred = "rejected"  -> "ValueError"          \* verify_credentials() is false
      [] OTHER              -> OK

(***************************************************************************)
(* tweet                                                                   *)
(***************************************************************************)
\* the answer of the remote to the n-th update_status of one tweet call
Response(remote, n) ==
    IF remote.always \/ n <= remote.limited THEN "ratelimit" ELSE remote.answer

\* The input checks of tweet (lines 282-289): the error raised, "ok" when
\* none.  The checks are the elif branches of "if self.api == None", so they
\* run only when the bot is already connected.  The over-limit branch builds
\* its message with str + int (CHARACTER_LIMIT), which raises TypeError
\* before the ValueError is constructed.
TweetErrorChecking(connected, message, cred) ==
    IF ~connected THEN connectFromConfig(cred)
    ELSE IF message.isNone THEN "ValueError"
    ELSE IF message.len > CHARACTER_LIMIT THEN "TypeError"
    ELSE IF message.len <= 0 THEN "ValueError"
    ELSE OK

\* a retry loop that forgets the status a retried submission returned
RECURSIVE TweetLoopDroppingRetried(_, _, _, _)
TweetLoopDroppingRetried(retry, remote, done, slept) ==
    IF retry <= 0
    THEN [outcome |-> OK, submissions |-> done, sleeps |-> slept, tweet |-> 0]
    ELSE IF Response(remote, done + 1) = "ok"
    THEN [outcome |-> OK, submissions |-> done + 1, sleeps |-> slept,
          tweet |-> IF done = 0 THEN remote.id ELSE 0]
    ELSE IF Response(remote, done + 1) = "ratelimit" /\ retry - 1 > 0
    THEN TweetLoopDroppingRetried(retry - 1, remote, done + 1, slept + 1)
    ELSE [outcome |-> IF Response(remote, done + 1) = "ratelimit"
                      THEN "RateLimitRetriesExceeded" ELSE "TweepError",
          submissions |-> done + 1, sleeps |-> slept, tweet |-> 0]

\* The retry loop of tweet (lines 291-309).  retry is the loop variable,
\* done the number of update_status calls made so far, slept the number of
\* time.sleep calls made so far.  tweet = 0 stands for None.
RECURSIVE TweetLoop(_, _, _, _)
TweetLoop(retry, remote, done, slept) ==
    IF retry > 0
    THEN LET r == Response(remote, done + 1) IN
         IF r = "ok"
         THEN [outcome |-> OK, submissions |-> done + 1, sleeps |-> slept,
               tweet |-> remote.id]
         ELSE IF r = "ratelimit"
         THEN IF retry - 1 > 0
              THEN TweetLoop(retry - 1, remote, done + 1, slept + 1)
              ELSE [outcome |-> "RateLimitRetriesExceeded",
                    submissions |-> done + 1, sleeps |-> slept, tweet |-> 0]
         ELSE [outcome |-> "TweepError", submissions |-> done + 1,
               sleeps |-> slept, tweet |-> 0]
    ELSE [outcome |-> OK, submissions |-> done, sleeps |-> slept, tweet |-> 0]

\* The whole of tweet(message): what it did and how it ended.
\*   outcome      "ok" or the kind of the exception that left tweet
\*   connected    self.api is set when tweet ends
\*   submissions  number of update_status calls, sleeps of time.sleep calls
\*   handled      the arguments of the handleTweet calls, in order
\*   returned     the value returned to the caller (0 is None)
tweet(connected, retry, message, cred, remote, hookRaises) ==
    LET checked == TweetErrorChecking(connected, message, cred) IN
    IF checked # OK
    THEN [outcome |-> checked, connected |-> connected, submissions |-> 0,
          sleeps |-> 0, handled |-> <<>>, returned |-> 0]
    ELSE LET loop == TweetLoop(retry, remote, 0, 0) IN
         IF loop.outcome # OK
         THEN [outcome |-> loop.outcome, connected |-> TRUE,
               submissions |-> loop.submissions, sleeps |-> loop.sleeps,
               handled |-> <<>>, returned |-> 0]
         ELSE [outcome |-> IF loop.tweet # 0 /\ hookRaises THEN "HookError" ELSE OK,
               connected |-> TRUE,
               submissions |-> loop.submissions, sleeps |-> loop.sleeps,
               handled |-> IF loop.tweet # 0 THEN <<loop.tweet>> ELSE <<>>,
               returned |-> 0]

(***************************************************************************)
(* Persisted state.  A value of an ini file is absent (no such section),   *)
(* "nokey" (the section lacks the key), "text" (a non-numeric string) or   *)
(* "int" (the decimal text of val, as str() writes it and int() reads it). *)
(***************************************************************************)
Absent == [kind |-> "absent", val |-> 0]

NoKey == [kind |-> "nokey", val |-> 0]

Text == [kind |-> "text", val |-> 0]

IntValue(n) == [kind |-> "int", val |-> n]

\* UpdateCheckInterval.ini: state is "missing", "unparseable" or "ok";
\* last is the value of [Update Check Interval] last
NoIntervalFile == [state |-> "missing", last |-> Absent]

IntervalFileOf(v) == [state |-> "ok", last |-> v]

\* latest.ini: sec[f] is the value of [f] LatestSeen
NoLatestFile == [state |-> "missing", sec |-> [f \in Features |-> Absent]]

\* followers.txt: the identifiers on its lines, in file order
NoFollowersFile == [state |-> "missing", lines |-> <<>>]

\* favorites.ini: ledger[i] is the value of [i] favorites
NoFavoritesFile == [state |-> "missing", ledger |-> [i \in IDs |-> Absent]]

(***************************************************************************)
(* Helpers on sequences.                                                   *)
(***************************************************************************)
Min(a, b) == IF a < b THEN a ELSE b

Take(s, n) == SubSeq(s, 1, Min(n, Len(s)))

Range(s) == {s[i] : i \in 1 .. Len(s)}

IdsOf(s) == {s[i].id : i \in 1 .. Len(s)}

MaxOf(S) == CHOOSE m \in S : \A x \in S : x <= m

\* a sort that leaves the list as it is
Unsorted(s) == s

\* list.sort(key=lambda x: x.id, reverse=True): insertion of s[1] into the
\* sorted tail; stable, as Python's sort is
RECURSIVE InsertDescending(_, _)
InsertDescending(x, s) ==
    IF s = <<>> THEN <<x>>
    ELSE IF x.id >= Head(s).id THEN <<x>> \o s
    ELSE <<Head(s)>> \o InsertDescending(x, Tail(s))

RECURSIVE SortDescending(_)
SortDescending(s) ==
    IF s = <<>> THEN <<>>
    ELSE InsertDescending(Head(s), SortDescending(Tail(s)))

(***************************************************************************)
(* _shouldCheckUpdates(runInterval): the exception raised ("ok" if none),  *)
(* the returned toRun and the interval file it leaves.                     *)
(***************************************************************************)
\* lines 190-211: the countdown read from the file
LoadedInterval(file) ==
    IF file.state = "ok" /\ file.last.kind = "int" THEN file.last.val ELSE 0

\* a countdown that also skips at 0
shouldCheckUpdatesFromZero(file, runInterval) ==
    IF file.state = "unparseable"
    THEN [raised |-> "ParsingError", toRun |-> FALSE, file |-> file]
    ELSE IF LoadedInterval(file) >= 0
    THEN [raised |-> OK, toRun |-> FALSE,
          file |-> IntervalFileOf(IntValue(LoadedInterval(file) - 1))]
    ELSE [raised |-> OK, toRun |-> TRUE,
          file |-> IntervalFileOf(IntValue(runInterval))]

shouldCheckUpdates(file, runInterval) ==
    IF file.state = "unparseable"
    THEN [raised |-> "ParsingError", toRun |-> FALSE, file |-> file]
    ELSE LET loaded == LoadedInterval(file) IN
         IF loaded > 0
         THEN [raised |-> OK, toRun |-> FALSE,
               file |-> IntervalFileOf(IntValue(loaded - 1))]
         ELSE [raised |-> OK, toRun |-> TRUE,
               file |-> IntervalFileOf(IntValue(runInterval))]

(***************************************************************************)
(* The remote feeds.  An environment of one feature check is               *)
(*   feed        the items the remote holds, in the order it returns them  *)
(*   ending      how the iteration ends once the items are exhausted:      *)
(*               "ok", "error" (a TweepError) or "403" (a TweepError whose *)
(*               reason holds "status code = 403")                         *)
(*   hookFailAt  the hook call that raises (0: none does)                  *)
(***************************************************************************)
Env(feed, ending, hookFailAt) ==
    [feed |-> feed, ending |-> ending, hookFailAt |-> hookFailAt]

\* a remote that ignores since_id
CursorIgnoringSince(env, last, limit) ==
    [items |-> Take(env.feed, limit),
     error |-> IF Len(env.feed) >= limit THEN "ok" ELSE env.ending]

\* a remote whose failures are not seen by the caller
CursorSwallowingErrors(env, last, limit) ==
    [items |-> IF last.kind = "int"
               THEN Take(SelectSeq(env.feed, LAMBDA s : s.id > last.val), limit)
               ELSE Take(env.feed, limit),
     error |-> "ok"]

\* tweepy.Cursor(method, since_id = last).items(limit): the remote returns
\* the items with an identifier greater than since_id; the iteration stops
\* after limit items without asking the remote again
Cursor(env, last, limit) ==
    LET since == IF last.kind = "int"
                 THEN SelectSeq(env.feed, LAMBDA s : s.id > last.val)
                 ELSE env.feed
    IN  IF last.kind = "text"
        THEN [items |-> <<>>, error |-> "error"]
        ELSE [items |-> Take(since, limit),
              error |-> IF Len(since) >= limit THEN "ok" ELSE env.ending]

\* "for item in new: self.handleX(item)": the calls made and the outcome
RunHooks(items, hookFailAt) ==
    IF hookFailAt \in 1 .. Len(items)
    THEN [called |-> Take(items, hookFailAt), outcome |-> "HookError"]
    ELSE [called |-> items, outcome |-> OK]

\* lines 507-522 (386-401, 576-591): the marker of a feature as loaded
LoadLatest(file, feature) ==
    IF file.state = "missing" THEN [raised |-> OK, last |-> Absent]
    ELSE IF file.state = "unparseable" THEN [raised |-> "ParsingError", last |-> Absent]
    ELSE IF file.sec[feature].kind = "nokey" THEN [raised |-> "KeyError", last |-> Absent]
    ELSE [raised |-> OK, last |-> file.sec[feature]]

\* a save that writes a file with the section of the feature alone
SaveLatestAlone(file, feature, last) ==
    [state |-> "ok",
     sec |-> [g \in Features |-> IF g = feature THEN IntValue(last) ELSE Absent]]

\* lines 539-542: config[feature] = {'LatestSeen': str(last)}, whole file rewritten
SaveLatest(file, feature, last) ==
    [state |-> "ok", sec |-> [file.sec EXCEPT ![feature] = IntValue(last)]]

\* the result of a feature check
\*   outcome    "ok" or the kind of the exception that left the check
\*   connected  self.api is set when the check ends
\*   file       the state file of the feature when the check ends
\*   fetched    the items the remote returned (<<>> if it was not asked)
\*   asked      the remote feed was requested
\*   novel      the list of novel items built by the check
\*   hooks      the items handed to the notification hook, in call order
CheckResult(outcome, connected, file, fetched, asked, novel, hooks) ==
    [outcome |-> outcome, connected |-> connected, file |-> file,
     fetched |-> fetched, asked |-> asked, novel |-> novel, hooks |-> hooks]

\* a tail that saves the marker after the hooks, when none of them raised
NotifyThenSave(file, feature, fetched, newMessages, hookFailAt) ==
    [outcome |-> RunHooks(newMessages, hookFailAt).outcome, connected |-> TRUE,
     file |-> IF newMessages = <<>> \/ RunHooks(newMessages, hookFailAt).outcome # OK
              THEN file ELSE SaveLatest(file, feature, newMessages[1].id),
     fetched |-> fetched, asked |-> TRUE, novel |-> newMessages,
     hooks |-> RunHooks(newMessages, hookFailAt).called]

\* a tail that writes the marker also when nothing is new
SaveAlwaysAndNotify(file, feature, fetched, newMessages, hookFailAt) ==
    [outcome |-> RunHooks(newMessages, hookFailAt).outcome, connected |-> TRUE,
     file |-> SaveLatest(file, feature,
                         IF newMessages = <<>> THEN 0 ELSE newMessages[1].id),
     fetched |-> fetched, asked |-> TRUE, novel |-> newMessages,
     hooks |-> RunHooks(newMessages, hookFailAt).called]

\* the tail shared by checkRetweets, checkDirectMessages and checkReplies
\* (lines 533-547): save the marker of newMessages[0], then call the hooks
SaveAndNotify(file, feature, fetched, newMessages, hookFailAt) ==
    LET saved == IF newMessages = <<>> THEN file
                 ELSE SaveLatest(file, feature, newMessages[1].id)
        run == RunHooks(newMessages, hookFailAt)
    IN  CheckResult(run.outcome, TRUE, saved, fetched, TRUE, newMessages, run.called)

(***************************************************************************)
(* The five feature checks.  Each takes self.api (connected), its state    *)
(* file, the state of credentials.ini (read only when not connected), the  *)
(* environment and its max parameter.                                      *)
(***************************************************************************)
\* the check could not connect, or could not load its state
Raised(error, connected, file) ==
    CheckResult(error, connected, file, <<>>, FALSE, <<>>, <<>>)

checkRetweets(connected, file, cred, env, maxMessagesLoaded) ==
    LET auth == IF connected THEN OK ELSE connectFromConfig(cred)
        loaded == LoadLatest(file, "Retweets")
        cur == Cursor(env, loaded.last, maxMessagesLoaded)
    IN  IF auth # OK THEN Raised(auth, FALSE, file)
        ELSE IF loaded.raised # OK THEN Raised(loaded.raised, TRUE, file)
        ELSE IF cur.error # "ok"
        THEN CheckResult("TweepError", TRUE, file, cur.items, TRUE, <<>>, <<>>)
        \* line 531: the sort is commented out; newMessages stays in remote order
        ELSE SaveAndNotify(file, "Retweets", cur.items, cur.items, env.hookFailAt)

\* a check that raises on every 403, whatever failureOnMissingPermission
checkDirectMessagesStrict(connected, file, cred, env, maxMessagesLoaded, failureOnMissingPermission) ==
    LET auth == IF connected THEN OK ELSE connectFromConfig(cred)
        loaded == LoadLatest(file, "DirectMessages")
        cur == Cursor(env, loaded.last, maxMessagesLoaded)
    IN  IF auth # OK THEN Raised(auth, FALSE, file)
        ELSE IF loaded.raised # OK THEN Raised(loaded.raised, TRUE, file)
        ELSE IF cur.error = "403"
        THEN CheckResult("MissingPermissionsError", TRUE, file, cur.items, TRUE,
                         <<>>, <<>>)
        ELSE IF cur.error = "error"
        THEN CheckResult("TweepError", TRUE, file, cur.items, TRUE, <<>>, <<>>)
        ELSE SaveAndNotify(file, "DirectMessages", cur.items,
                           SortDescending(cur.items), env.hookFailAt)

checkDirectMessages(connected, file, cred, env, maxMessagesLoaded, failureOnMissingPermission) ==
    LET auth == IF connected THEN OK ELSE connectFromConfig(cred)
        loaded == LoadLatest(file, "DirectMessages")
        cur == Cursor(env, loaded.last, maxMessagesLoaded)
    IN  IF auth # OK THEN Raised(auth, FALSE, file)
        ELSE IF loaded.raised # OK THEN Raised(loaded.raised, TRUE, file)
        ELSE IF cur.error = "403" /\ failureOnMissingPermission
        THEN CheckResult("MissingPermissionsError", TRUE, file, cur.items, TRUE,
                         <<>>, <<>>)
        ELSE IF cur.error = "error"
        THEN CheckResult("TweepError", TRUE, file, cur.items, TRUE, <<>>, <<>>)
        \* an ignored 403 falls through with the messages appended so far
        ELSE SaveAndNotify(file, "DirectMessages", cur.items,
                           SortDescending(cur.items), env.hookFailAt)

checkReplies(connected, file, cred, env, maxMessagesLoaded) ==
    LET auth == IF connected THEN OK ELSE connectFromConfig(cred)
        loaded == LoadLatest(file, "Replies")
        cur == Cursor(env, loaded.last, maxMessagesLoaded)
        \* msg.in_reply_to_user_id == self.api.me().id
        replies == SelectSeq(cur.items, LAMBDA msg : msg.reply)
    IN  IF auth # OK THEN Raised(auth, FALSE, file)
        ELSE IF loaded.raised # OK THEN Raised(loaded.raised, TRUE, file)
        ELSE IF cur.error # "ok"
        THEN CheckResult("TweepError", TRUE, file, cur.items, TRUE, <<>>, <<>>)
        ELSE SaveAndNotify(file, "Replies", cur.items, SortDescending(replies),
                           env.hookFailAt)

\* a scan that does not extend the known list
ScanFollowersUnrecorded(items, known, new) ==
    [known |-> known,
     new |-> SelectSeq(items, LAMBDA follower : follower.id \notin Range(known))]

\* lines 468-472: the followers not yet known, and the known list extended
RECURSIVE ScanFollowers(_, _, _)
ScanFollowers(items, known, new) ==
    IF items = <<>> THEN [known |-> known, new |-> new]
    ELSE IF Head(items).id \in Range(known)
    THEN ScanFollowers(Tail(items), known, new)
    ELSE ScanFollowers(Tail(items), Append(known, Head(items).id),
                       Append(new, Head(items)))

\* a check that persists the current followers only
checkNewFollowersCurrentOnly(connected, file, cred, env, maxFollowersChecked) ==
    LET auth == IF connected THEN OK ELSE connectFromConfig(cred)
        cur == Cursor(env, Absent, maxFollowersChecked)
        new == SelectSeq(cur.items, LAMBDA follower : follower.id \notin Range(file.lines))
        saved == IF new = <<>> THEN file
                 ELSE [state |-> "ok", lines |-> [i \in 1 .. Len(cur.items) |-> cur.items[i].id]]
        run == RunHooks(new, env.hookFailAt)
    IN  IF auth # OK THEN Raised(auth, FALSE, file)
        ELSE IF cur.error # "ok"
        THEN CheckResult("TweepError", TRUE, file, cur.items, TRUE, <<>>, <<>>)
        ELSE CheckResult(run.outcome, TRUE, saved, cur.items, TRUE, new, run.called)

checkNewFollowers(connected, file, cred, env, maxFollowersChecked) ==
    LET auth == IF connected THEN OK ELSE connectFromConfig(cred)
        cur == Cursor(env, Absent, maxFollowersChecked)
        scan == ScanFollowers(cur.items, file.lines, <<>>)
        saved == IF scan.new = <<>> THEN file
                 ELSE [state |-> "ok", lines |-> scan.known]
        run == RunHooks(scan.new, env.hookFailAt)
    IN  IF auth # OK THEN Raised(auth, FALSE, file)
        ELSE IF cur.error # "ok"
        THEN CheckResult("TweepError", TRUE, file, cur.items, TRUE, <<>>, <<>>)
        ELSE CheckResult(run.outcome, TRUE, saved, cur.items, TRUE, scan.new,
                         run.called)

\* a scan that also looks at the posts without a favorite
RECURSIVE ScanFavoritesAnyCount(_, _, _)
ScanFavoritesAnyCount(items, ledger, new) ==
    IF items = <<>> THEN [raised |-> OK, ledger |-> ledger, new |-> new]
    ELSE IF ledger[Head(items).id].kind = "nokey"
    THEN [raised |-> "KeyError", ledger |-> ledger, new |-> new]
    ELSE IF ledger[Head(items).id] # IntValue(Head(items).favorite_count)
    THEN ScanFavoritesAnyCount(Tail(items),
            [ledger EXCEPT ![Head(items).id] = IntValue(Head(items).favorite_count)],
            Append(new, Head(items)))
    ELSE ScanFavoritesAnyCount(Tail(items), ledger, new)

\* lines 651-662: the ledger updated post by post, and the posts whose count
\* is not the recorded one.  known is a string read from the file, or the
\* integer 0, and is compared with str(msg.favorite_count).
RECURSIVE ScanFavorites(_, _, _)
ScanFavorites(items, ledger, new) ==
    IF items = <<>> THEN [raised |-> OK, ledger |-> ledger, new |-> new]
    ELSE LET msg == Head(items)
             known == ledger[msg.id]
         IN  IF msg.favorite_count > 0
             THEN IF known.kind = "nokey"
                  THEN [raised |-> "KeyError", ledger |-> ledger, new |-> new]
                  ELSE IF known # IntValue(msg.favorite_count)
                  THEN ScanFavorites(Tail(items),
                         [ledger EXCEPT ![msg.id] = IntValue(msg.favorite_count)],
                         Append(new, msg))
                  ELSE ScanFavorites(Tail(items), ledger, new)
             ELSE ScanFavorites(Tail(items), ledger, new)

checkFavorites(connected, file, cred, env, maxMessagesLoaded) ==
    LET auth == IF connected THEN OK ELSE connectFromConfig(cred)
        cur == Cursor(env, Absent, maxMessagesLoaded)
        scan == ScanFavorites(cur.items, file.ledger, <<>>)
        saved == IF scan.new = <<>> THEN file
                 ELSE [state |-> "ok", ledger |-> scan.ledger]
        run == RunHooks(scan.new, env.hookFailAt)
    IN  IF auth # OK THEN Raised(auth, FALSE, file)
        ELSE IF file.state = "unparseable" THEN Raised("ParsingError", TRUE, file)
        ELSE IF scan.raised # OK
        THEN CheckResult(scan.raised, TRUE, file, cur.items, TRUE, <<>>, <<>>)
        ELSE IF cur.error # "ok"
        THEN CheckResult("TweepError", TRUE, file, cur.items, TRUE, <<>>, <<>>)
        ELSE CheckResult(run.outcome, TRUE, saved, cur.items, TRUE, scan.new,
                         run.called)

(***************************************************************************)
(* checkForUpdates                                                         *)
(***************************************************************************)
\* the feature checks in the order checkForUpdates calls them (lines 343-366)
CheckOrder == <<"Retweets", "NewFollowers", "Favorites", "DirectMessages", "Replies">>

CheckNames == Range(CheckOrder)

\* the default arguments: every check but the direct messages
DefaultFlags == [c \in CheckNames |-> c # "DirectMessages"]

\* the persisted state and the connection, as one value
BotState(connected, interval, latest, followers, favorites) ==
    [connected |-> connected, interval |-> interval, latest |-> latest,
     followers |-> followers, favorites |-> favorites]

\* one feature check called with its default arguments, as checkForUpdates does
RunCheck(name, st, cred, env) ==
    CASE name = "Retweets" ->
            checkRetweets(st.connected, st.latest, cred, env, DefaultMaxMessagesLoaded)
      [] name = "NewFollowers" ->
            checkNewFollowers(st.connected, st.followers, cred, env, DefaultMaxMessagesLoaded)
      [] name = "Favorites" ->
            checkFavorites(st.connected, st.favorites, cred, env, DefaultMaxMessagesLoaded)
      [] name = "DirectMessages" ->
            checkDirectMessages(st.connected, st.latest, cred, env,
                                DefaultMaxMessagesLoaded, FALSE)
      [] OTHER ->
            checkReplies(st.connected, st.latest, cred, env, DefaultMaxReplies)

\* the state a feature check leaves
After(name, st, res) ==
    CASE name = "NewFollowers" ->
            [st EXCEPT !.connected = res.connected, !.followers = res.file]
      [] name = "Favorites" ->
            [st EXCEPT !.connected = res.connected, !.favorites = res.file]
      [] OTHER ->
            [st EXCEPT !.connected = res.connected, !.latest = res.file]

\* what a finished check leaves in the record of the call
Report(name, res) ==
    [check |-> name, outcome |-> res.outcome, fetched |-> res.fetched,
     asked |-> res.asked, novel |-> res.novel, hooks |-> res.hooks]

\* the run of the checks so far, extended by a check that ended with res
Checked(name, acc, res) ==
    [outcome |-> res.outcome, st |-> After(name, acc.st, res),
     reports |-> Append(acc.reports, Report(name, res))]

\* the checks from position i on, whatever their flags
RECURSIVE RunChecksIgnoringFlags(_, _, _, _, _)
RunChecksIgnoringFlags(i, acc, flags, cred, envs) ==
    IF i > Len(CheckOrder) \/ acc.outcome # OK THEN acc
    ELSE RunChecksIgnoringFlags(i + 1,
                   Checked(CheckOrder[i], acc,
                           RunCheck(CheckOrder[i], acc.st, cred, envs[CheckOrder[i]])),
                   flags, cred, envs)

\* lines 343-366: the enabled checks from position i on, in order; an
\* exception of a check leaves checkForUpdates at once
RECURSIVE RunChecks(_, _, _, _, _)
RunChecks(i, acc, flags, cred, envs) ==
    IF i > Len(CheckOrder) \/ acc.outcome # OK THEN acc
    ELSE IF ~flags[CheckOrder[i]] THEN RunChecks(i + 1, acc, flags, cred, envs)
    ELSE RunChecks(i + 1,
                   Checked(CheckOrder[i], acc,
                           RunCheck(CheckOrder[i], acc.st, cred, envs[CheckOrder[i]])),
                   flags, cred, envs)

\* a gate that forgets the "runInterval <= 0 or"
GateOnCheckOnly(runInterval, check) == check

\* line 331: "if runInterval <= 0 or check"
Gate(runInterval, check) == runInterval <= 0 \/ check

\* The whole of checkForUpdates.  gate is "error" (the interval file could
\* not be read), "skip" or "check"; check is the local variable of line 330.
checkForUpdates(st, runInterval, flags, cred, envs) ==
    LET sc == shouldCheckUpdates(st.interval, runInterval)
        counted == [st EXCEPT !.interval = sc.file]
        auth == IF st.connected THEN OK ELSE connectFromConfig(cred)
        run == RunChecks(1, [outcome |-> OK, reports |-> <<>>,
                             st |-> [counted EXCEPT !.connected = TRUE]],
                         flags, cred, envs)
    IN  IF sc.raised # OK
        THEN [outcome |-> sc.raised, gate |-> "error", st |-> st, reports |-> <<>>,
              check |-> FALSE]
        ELSE IF ~Gate(runInterval, sc.toRun)
        THEN [outcome |-> OK, gate |-> "skip", st |-> counted, reports |-> <<>>,
              check |-> sc.toRun]
        ELSE IF auth # OK
        THEN [outcome |-> auth, gate |-> "check", st |-> counted, reports |-> <<>>,
              check |-> sc.toRun]
        ELSE [outcome |-> run.outcome, gate |-> "check", st |-> run.st,
              reports |-> run.reports, check |-> sc.toRun]

(***************************************************************************)
(* The state machine.                                                      *)
(***************************************************************************)
\* the bot's connection and persisted state now
Now == BotState(api, intervalFile, latestFile, followersFile, favoritesFile)

\* the bot's connection and persisted state become st
Becomes(st) ==
    /\ api' = st.connected
    /\ intervalFile' = st.interval
    /\ latestFile' = st.latest
    /\ followersFile' = st.followers
    /\ favoritesFile' = st.favorites

\* no operation is under way: the client is between two calls
Idle == [op |-> "none"]

NoCadence == [valid |-> FALSE, interval |-> 0, calls |-> 0]

\* the history of the notifications of one feature, the watched one: how
\* often each item was handed to its hook (2 stands for twice or more)
Watching(feature) == [feature |-> feature, times |-> [i \in IDs |-> 0]]

NothingWatched == Watching("none")

Noted(reports) ==
    [notified EXCEPT !.times = [i \in IDs |->
        IF \E r \in Range(reports) : r.check = notified.feature /\ i \in IdsOf(r.hooks)
        THEN Min(2, @[i] + 1) ELSE @[i]]]

\* EasyTweeter(secondsSleepWhenRateLimited, rateLimitRetries) over the
\* state directory as it is found
Constructed(secondsSleepWhenRateLimited, rateLimitRetries, interval, latest) ==
    /\ api = FALSE
    /\ sleep = InitSleep(secondsSleepWhenRateLimited)
    /\ retries = InitRetries(rateLimitRetries)
    /\ intervalFile = interval
    /\ latestFile = latest
    /\ followersFile = NoFollowersFile
    /\ favoritesFile = NoFavoritesFile
    /\ call = Idle
    /\ cadence = NoCadence

\* EasyTweeter() over a state directory found with these four files
ConstructedOver(interval, latest, followers, favorites) ==
    /\ api = FALSE
    /\ sleep = InitSleep(DefaultSleep)
    /\ retries = InitRetries(DefaultRetries)
    /\ intervalFile = interval
    /\ latestFile = latest
    /\ followersFile = followers
    /\ favoritesFile = favorites
    /\ call = Idle
    /\ cadence = NoCadence

\* connectFromConfig called by the client before anything else
Connect(cred) ==
    /\ call = Idle
    /\ api' = (api \/ connectFromConfig(cred) = OK)
    /\ call' = [op |-> "connect", outcome |-> connectFromConfig(cred), before |-> Now]
    /\ UNCHANGED <<retries, sleep, intervalFile, latestFile, followersFile,
                   favoritesFile, cadence, notified>>

\* tweet(message)
Tweet(message, cred, remote, hookRaises) ==
    /\ call = Idle
    /\ \E r \in {tweet(api, retries, message, cred, remote, hookRaises)} :
        /\ api' = r.connected
        /\ call' = [op |-> "tweet", outcome |-> r.outcome, before |-> Now,
                    message |-> message, remote |-> remote, cred |-> cred,
                    submissions |-> r.submissions, sleeps |-> r.sleeps,
                    slept |-> r.sleeps * sleep,
                    handled |-> r.handled, returned |-> r.returned]
    /\ UNCHANGED <<retries, sleep, intervalFile, latestFile, followersFile,
                   favoritesFile, cadence, notified>>

\* the history of the cadence: the calls made with one runInterval since
\* the last call that passed the gate
Counted(gate, runInterval) ==
    IF gate = "check" THEN [valid |-> TRUE, interval |-> runInterval, calls |-> 0]
    ELSE IF gate = "skip" /\ cadence.valid /\ cadence.interval = runInterval
    THEN [cadence EXCEPT !.calls = @ + 1]
    ELSE NoCadence

\* checkForUpdates(runInterval, retweets, newFollowers, replies, favorites,
\* directMessages).  gap is the number of calls since the previous call
\* that passed the gate, this one included, when all of them were made with
\* this runInterval (0 when not known).
CheckForUpdates(runInterval, flags, cred, envs) ==
    /\ call = Idle
    /\ \E r \in {checkForUpdates(Now, runInterval, flags, cred, envs)} :
        /\ Becomes(r.st)
        /\ call' = [op |-> "checkForUpdates", outcome |-> r.outcome, before |-> Now,
                    runInterval |-> runInterval, flags |-> flags, gate |-> r.gate,
                    cred |-> cred,
                    check |-> r.check,
                    gap |-> IF r.gate = "check" /\ cadence.valid
                               /\ cadence.interval = runInterval
                            THEN cadence.calls + 1 ELSE 0,
                    reports |-> r.reports]
        /\ cadence' = Counted(r.gate, runInterval)
        /\ notified' = Noted(r.reports)
    /\ UNCHANGED <<retries, sleep>>

\* the client goes on after the operation it called
Return ==
    /\ call # Idle
    /\ call' = Idle
    /\ UNCHANGED <<api, retries, sleep, intervalFile, latestFile, followersFile,
                   favoritesFile, cadence, notified>>

\* the process of the client ends after the operation it called, and the
\* client is run again: the bot is constructed anew over the same files
Restart ==
    /\ call # Idle
    /\ call' = Idle
    /\ api' = FALSE
    /\ UNCHANGED <<retries, sleep, intervalFile, latestFile, followersFile,
                   favoritesFile, cadence, notified>>

\* one of the feature checks called by the client
Check(name, res, env, failureOnMissingPermission, cred) ==
    /\ Becomes(After(name, Now, res))
    /\ call' = [op |-> name, outcome |-> res.outcome, before |-> Now,
                env |-> env, strict |-> failureOnMissingPermission,
                cred |-> cred,
                reports |-> <<Report(name, res)>>]
    /\ notified' = Noted(<<Report(name, res)>>)
    /\ UNCHANGED <<retries, sleep, cadence>>

CheckRetweets(cred, env, maxMessagesLoaded) ==
    /\ call = Idle
    /\ \E res \in {checkRetweets(api, latestFile, cred, env, maxMessagesLoaded)} :
        Check("Retweets", res, env, FALSE, cred)

CheckDirectMessages(cred, env, maxMessagesLoaded, failureOnMissingPermission) ==
    /\ call = Idle
    /\ \E res \in {checkDirectMessages(api, latestFile, cred, env, maxMessagesLoaded, failureOnMissingPermission)} :
        Check("DirectMessages", res, env, failureOnMissingPermission, cred)

CheckReplies(cred, env, maxMessagesLoaded) ==
    /\ call = Idle
    /\ \E res \in {checkReplies(api, latestFile, cred, env, maxMessagesLoaded)} :
        Check("Replies", res, env, FALSE, cred)

CheckNewFollowers(cred, env, maxFollowersChecked) ==
    /\ call = Idle
    /\ \E res \in {checkNewFollowers(api, followersFile, cred, env, maxFollowersChecked)} :
        Check("NewFollowers", res, env, FALSE, cred)

\* checkNewFollowers called a second time, right after the first call and
\* against the remote data of the first call
CheckNewFollowersAgain(cred, maxFollowersChecked) ==
    /\ call # Idle
    /\ call.op = "NewFollowers"
    /\ \E res \in {checkNewFollowers(api, followersFile, cred, call.env, maxFollowersChecked)} :
        /\ Becomes(After("NewFollowers", Now, res))
        /\ call' = [op |-> "NewFollowersAgain", outcome |-> res.outcome,
                    before |-> Now, env |-> call.env, strict |-> FALSE,
                    cred |-> cred,
                    first |-> call.reports[1],
                    reports |-> <<Report("NewFollowers", res)>>]
        /\ notified' = Noted(<<Report("NewFollowers", res)>>)
    /\ UNCHANGED <<retries, sleep, cadence>>

CheckFavorites(cred, env, maxMessagesLoaded) ==
    /\ call = Idle
    /\ \E res \in {checkFavorites(api, favoritesFile, cred, env, maxMessagesLoaded)} :
        Check("Favorites", res, env, FALSE, cred)

(***************************************************************************)
(* Spec: a bot that tweets.  The client constructs the bot, may connect    *)
(* it, and calls tweet with any message against any remote.                *)
(***************************************************************************)
\* credentials.ini is read only by a bot that is not connected
CredentialsSeen == IF api THEN {"valid"} ELSE Credentials

Init ==
    \E s \in {-1, DefaultSleep}, r \in -1 .. MaxRetries :
        Constructed(s, r, NoIntervalFile, NoLatestFile) /\ notified = NothingWatched

\* the remote and the hook matter only to a call that reaches them
TweetStep ==
    /\ call = Idle
    /\ \E message \in Messages, cred \in CredentialsSeen :
           \E remote \in IF cred = "valid" THEN TweetRemotes ELSE {AlwaysRateLimited} :
               \E hookRaises \in IF remote.answer = "ok" THEN BOOLEAN ELSE {FALSE} :
                   Tweet(message, cred, remote, hookRaises)

ConnectStep == \E cred \in Credentials : Connect(cred)

Next == TweetStep \/ ConnectStep \/ Return \/ Restart

Spec == Init /\ [][Next]_vars

(***************************************************************************)
(* Properties of tweet, checked under Spec.                                *)
(***************************************************************************)
\* the messages the docstring of tweet rejects: None, empty, over the limit
InvalidMessage(message) ==
    message.isNone \/ message.len <= 0 \/ message.len > CHARACTER_LIMIT

\* C1: a tweet of a message that is None, empty or longer than
\* CHARACTER_LIMIT makes no status submission (no update_status call),
\* whether or not the bot was connected when tweet was called.
C1_InvalidMessageNeverSubmitted ==
    (call.op = "tweet" /\ InvalidMessage(call.message)) => call.submissions = 0

\* C2: a tweet of a message that is None, empty or longer than
\* CHARACTER_LIMIT ends in ValueError and in no other way, whether or not
\* the bot was connected when tweet was called (a call whose lazy
\* authentication failed is left aside: api is set when the call ends).
C2_InvalidMessageEndsInValueError ==
    (call.op = "tweet" /\ InvalidMessage(call.message) /\ api)
        => call.outcome = "ValueError"

\* C3: against a remote that rate-limits every submission, a tweet of a
\* valid message with retries = R makes R + 1 submissions, sleeps R times
\* (once before each retry) and then raises RateLimitRetriesExceeded.
C3_RetriesAfterFirstAttempt ==
    (call.op = "tweet" /\ ~InvalidMessage(call.message) /\ api
        /\ call.remote.always)
        => /\ call.submissions = retries + 1
           /\ call.sleeps = retries
           /\ call.outcome = "RateLimitRetriesExceeded"

\* the remote accepted the submission: the last update_status call made
\* was answered with a status
Accepted ==
    call.submissions >= 1 /\ Response(call.remote, call.submissions) = "ok"

\* C16 as stated: for every message of 1 to CHARACTER_LIMIT characters,
\* when the remote accepts the submission tweet completes without error
\* and calls handleTweet exactly once, with the item the remote returned;
\* handleTweet is called zero times whenever tweet ends in an error.
C16_AcceptedTweetHandledOnce ==
    (call.op = "tweet" /\ ~InvalidMessage(call.message))
        => /\ Accepted => (call.outcome = OK /\ call.handled = <<call.remote.id>>)
           /\ call.outcome # OK => call.handled = <<>>

\* C16 amended: for every message of 1 to CHARACTER_LIMIT characters,
\* when the remote accepts the submission tweet calls handleTweet exactly
\* once, with the item the remote returned, and completes without error
\* unless handleTweet itself raises; handleTweet is called zero times when
\* the submission was not accepted, and so whenever tweet ends in an error
\* that handleTweet did not raise.
C16_AcceptedTweetHandledOnceHookMayRaise ==
    (call.op = "tweet" /\ ~InvalidMessage(call.message))
        => /\ Accepted => /\ call.handled = <<call.remote.id>>
                          /\ call.outcome \in {OK, "HookError"}
           /\ ~Accepted => (call.handled = <<>> /\ call.outcome # "HookError")
           /\ call.outcome \notin {OK, "HookError"} => call.handled = <<>>

\* a message of exactly CHARACTER_LIMIT characters, accepted after a
\* rate-limited first submission and handed to handleTweet
C16_Witness ==
    /\ call.op = "tweet"
    /\ call.message = StringMessage(CHARACTER_LIMIT)
    /\ call.submissions = 2
    /\ Accepted
    /\ call.outcome = OK
    /\ call.handled = <<call.remote.id>>

\* C22: a successful tweet(message) returns to its caller the published
\* item, the status the remote returned for the submission.
C22_SuccessfulTweetReturnsItem ==
    (call.op = "tweet" /\ call.outcome = OK /\ Accepted)
        => call.returned = call.remote.id

\* what tweet does with the published item: it is handed to handleTweet
\* and None is returned
C22_ItemHandledNotReturned ==
    (call.op = "tweet" /\ call.outcome = OK /\ Accepted)
        => call.handled = <<call.remote.id>> /\ call.returned = 0

(***************************************************************************)
(* SpecUpdates: a bot that is run again and again and calls                *)
(* checkForUpdates with any runInterval and any flags, over an interval    *)
(* file found in any condition, against a remote that is quiet, busy, or   *)
(* busy and failing in one of the checks.                                  *)
(***************************************************************************)
UpdateIntervals == -1 .. MaxInterval

\* the flags the client passes: the defaults, every check, no check, only
\* the replies
UpdateFlags ==
    {DefaultFlags, [c \in CheckNames |-> TRUE], [c \in CheckNames |-> FALSE],
     [c \in CheckNames |-> c = "Replies"]}

\* the conditions UpdateCheckInterval.ini can be found in before the first run
IntervalFilesFound ==
    {NoIntervalFile, [state |-> "unparseable", last |-> Absent],
     IntervalFileOf(Absent), IntervalFileOf(NoKey), IntervalFileOf(Text)}

\* a remote with something new for every check
BusyFeed(name) ==
    CASE name = "Retweets"       -> <<Status(1, FALSE, 0), Status(2, FALSE, 0)>>
      [] name = "NewFollowers"   -> <<Status(1, FALSE, 0)>>
      [] name = "Favorites"      -> <<Status(1, FALSE, 1)>>
      [] name = "DirectMessages" -> <<Status(2, FALSE, 0)>>
      [] OTHER                   -> <<Status(1, TRUE, 0), Status(2, FALSE, 0)>>

Quiet == [c \in CheckNames |-> Env(<<>>, "ok", 0)]

Busy == [c \in CheckNames |-> Env(BusyFeed(c), "ok", 0)]

UpdateWorlds ==
    {Quiet, Busy, [Busy EXCEPT !["NewFollowers"] = Env(BusyFeed("NewFollowers"), "ok", 1)]}
    \cup {[Busy EXCEPT ![c] = Env(<<>>, "error", 0)] : c \in CheckNames}

InitUpdates ==
    \E found \in IntervalFilesFound :
        /\ Constructed(DefaultSleep, DefaultRetries, found, NoLatestFile)
        /\ notified = NothingWatched

UpdateStep ==
    /\ call = Idle
    /\ \E runInterval \in UpdateIntervals, flags \in UpdateFlags,
          cred \in CredentialsSeen :
           \E envs \in IF cred = "valid" THEN UpdateWorlds ELSE {Quiet} :
               CheckForUpdates(runInterval, flags, cred, envs)

NextUpdates == UpdateStep \/ ConnectStep \/ Return \/ Restart

SpecUpdates == InitUpdates /\ [][NextUpdates]_vars

(***************************************************************************)
(* Properties of the cadence of checkForUpdates, checked under SpecUpdates.*)
(***************************************************************************)
\* the enabled checks, in the order of checkForUpdates
Enabled(flags) == SelectSeq(CheckOrder, LAMBDA c : flags[c])

\* the checks a call of checkForUpdates started, in order
Ran(reports) == [i \in 1 .. Len(reports) |-> reports[i].check]

\* the checks ran one after the other until one of them raised: the call
\* ended well with every enabled check run, or it ended with the error of
\* the last check it ran, every check before that one having ended well
RanUntilError(c) ==
    /\ \A i \in 1 .. Len(c.reports) - 1 : c.reports[i].outcome = OK
    /\ \/ c.outcome = OK /\ Ran(c.reports) = Enabled(c.flags)
       \/ /\ c.outcome # OK
          /\ c.reports # <<>>
          /\ c.reports[Len(c.reports)].outcome = c.outcome
          /\ Ran(c.reports) = SubSeq(Enabled(c.flags), 1, Len(c.reports))

\* C4: with a constant runInterval N > 0, a real check happens exactly
\* once every N calls: the call that passes the gate is the N-th call
\* after the previous call that passed it (gap = N).
C4_CheckEveryNthCall ==
    (call.op = "checkForUpdates" /\ call.runInterval > 0 /\ call.gap > 0)
        => call.gap = call.runInterval

\* C9: with runInterval <= 0, checkForUpdates leaves the persisted cadence
\* counter as it was: the countdown stored after the call is the countdown
\* stored before it (a missing file counting as the 0 it loads as).
C9_CounterUntouchedWhenIntervalNotPositive ==
    (call.op = "checkForUpdates" /\ call.runInterval <= 0)
        => LoadedInterval(intervalFile) = LoadedInterval(call.before.interval)

\* C10: with runInterval <= 0, every call of checkForUpdates passes the
\* gate, whatever the persisted counter holds (positive, zero, negative,
\* missing or without a usable value): unless the lazy authentication
\* fails, it runs the enabled feature checks, in order, until one raises.
C10_NonPositiveIntervalAlwaysChecks ==
    (call.op = "checkForUpdates" /\ call.runInterval <= 0
        /\ call.before.interval.state # "unparseable")
        => /\ call.gate = "check"
           /\ IF api THEN RanUntilError(call)
              ELSE call.outcome # OK /\ call.reports = <<>>

\* C10 happens: a call with runInterval <= 0 over a positive countdown ran
\* all five checks
C10_Witness ==
    /\ call.op = "checkForUpdates"
    /\ call.runInterval <= 0
    /\ LoadedInterval(call.before.interval) > 0
    /\ call.outcome = OK
    /\ Len(call.reports) = Len(CheckOrder)

\* the countdown a counter file holds: its number, 0 when it has none
Countdown(file) ==
    IF file.state = "ok" /\ file.last.kind = "int" THEN file.last.val ELSE 0

\* C11: _shouldCheckUpdates(interval) follows the cadence rule for every
\* persisted counter: a countdown > 0 is persisted decremented by one and
\* false is returned; otherwise (0, negative, no file, no usable value)
\* the interval is persisted and true is returned.
C11_CadenceRule ==
    (call.op = "checkForUpdates" /\ call.before.interval.state # "unparseable")
        => IF Countdown(call.before.interval) > 0
           THEN /\ ~call.check
                /\ intervalFile = IntervalFileOf(IntValue(Countdown(call.before.interval) - 1))
           ELSE /\ call.check
                /\ intervalFile = IntervalFileOf(IntValue(call.runInterval))

\* a call over a countdown of 2 or more that an earlier call stored, made
\* with another interval than the one stored
C11_Witness ==
    /\ call.op = "checkForUpdates"
    /\ Countdown(call.before.interval) >= 2
    /\ call.runInterval > 0
    /\ call.runInterval # Countdown(call.before.interval)
    /\ ~call.check
    /\ Countdown(intervalFile) = Countdown(call.before.interval) - 1

\* the call of checkForUpdates was skipped: nothing was checked, the remote
\* was not contacted, and only the counter changed, decremented by one
Skipped ==
    /\ call.outcome = OK
    /\ call.reports = <<>>
    /\ api = call.before.connected
    /\ latestFile = call.before.latest
    /\ followersFile = call.before.followers
    /\ favoritesFile = call.before.favorites
    /\ intervalFile = IntervalFileOf(IntValue(Countdown(call.before.interval) - 1))

\* C26: checkForUpdates persists the cadence counter before it
\* authenticates or runs a check: when the gate says skip (runInterval > 0
\* and counter > 0) no check runs, the remote is not contacted and only the
\* counter changes; when the gate says check and the authentication or a
\* check then fails, the counter stays reset to runInterval.
C26_CounterSavedBeforeChecks ==
    (call.op = "checkForUpdates" /\ call.before.interval.state # "unparseable")
        => IF call.runInterval > 0 /\ Countdown(call.before.interval) > 0
           THEN Skipped
           ELSE call.outcome # OK
                    => intervalFile = IntervalFileOf(IntValue(call.runInterval))

\* the same for the calls made with a positive runInterval
C26_PositiveIntervalCounterSaved ==
    (/\ call.op = "checkForUpdates"
     /\ call.before.interval.state # "unparseable"
     /\ call.runInterval > 0)
        => IF Countdown(call.before.interval) > 0
           THEN Skipped
           ELSE call.outcome # OK
                    => intervalFile = IntervalFileOf(IntValue(call.runInterval))

\* a call that passed the gate and could not authenticate: the counter
\* holds runInterval
C26_AuthenticationFailedAfterSave ==
    /\ call.op = "checkForUpdates"
    /\ call.runInterval > 0
    /\ call.cred = "rejected"
    /\ call.outcome = "ValueError"
    /\ intervalFile = IntervalFileOf(IntValue(call.runInterval))

\* a call that passed the gate and whose second check failed
C26_CheckFailedAfterSave ==
    /\ call.op = "checkForUpdates"
    /\ call.runInterval > 0
    /\ call.outcome = "TweepError"
    /\ Len(call.reports) >= 2
    /\ intervalFile = IntervalFileOf(IntValue(call.runInterval))

\* a skipped call by a bot that was not connected
C26_SkippedUnconnected ==
    /\ call.op = "checkForUpdates"
    /\ call.runInterval > 0
    /\ Countdown(call.before.interval) > 0
    /\ ~call.before.connected
    /\ ~api

(***************************************************************************)
(* SpecPoll: a bot polled for retweets, direct messages and replies, in    *)
(* any order, against remotes that return any items in any order, fail,    *)
(* or whose hooks fail part-way.                                           *)
(***************************************************************************)
\* the feeds of at most n items, each identifier at most once
FeedsUpTo(n, items) ==
    {f \in UNION {[1 .. k -> items] : k \in 0 .. n} :
        \A i, j \in 1 .. Len(f) : i # j => f[i].id # f[j].id}

\* the feeds of at most MaxFeed items
Feeds(items) == FeedsUpTo(MaxFeed, items)

IdFeeds == Feeds({Status(i, FALSE, 0) : i \in IDs})

\* home timelines: some statuses reply to the bot, some do not
Timelines == Feeds({Status(i, r, 0) : i \in IDs, r \in BOOLEAN})

Down == Env(<<>>, "error", 0)

\* a remote that answers, with any hook call failing or none
Answering(feeds) == UNION {{Env(f, "ok", h) : h \in 0 .. Len(f)} : f \in feeds}

\* a remote that fails once it has returned its items (Down when it has none)
Failing(feeds) == {Env(f, "error", 0) : f \in feeds}

RetweetEnvs == Answering(IdFeeds) \cup Failing(IdFeeds)

\* the direct messages may end in the 403 of a missing permission
DirectMessageEnvs ==
    Answering(IdFeeds) \cup Failing(IdFeeds) \cup {Env(f, "403", 0) : f \in IdFeeds}

ReplyEnvs == Answering(Timelines) \cup Failing(Timelines)

\* the remote is reached with valid credentials only
Reached(cred, envs) == IF cred = "valid" THEN envs ELSE {Down}

InitPoll ==
    /\ Constructed(DefaultSleep, DefaultRetries, NoIntervalFile, NoLatestFile)
    /\ notified = NothingWatched

RetweetsStep ==
    /\ call = Idle
    /\ \E cred \in CredentialsSeen :
           \E env \in Reached(cred, RetweetEnvs) :
               CheckRetweets(cred, env, DefaultMaxMessagesLoaded)

DirectMessagesStep ==
    /\ call = Idle
    /\ \E cred \in CredentialsSeen, failureOnMissingPermission \in BOOLEAN :
           \E env \in Reached(cred, DirectMessageEnvs) :
               CheckDirectMessages(cred, env, DefaultMaxMessagesLoaded,
                                   failureOnMissingPermission)

RepliesStep ==
    /\ call = Idle
    /\ \E cred \in CredentialsSeen :
           \E env \in Reached(cred, ReplyEnvs) :
               CheckReplies(cred, env, DefaultMaxReplies)

NextPoll ==
    RetweetsStep \/ DirectMessagesStep \/ RepliesStep \/ ConnectStep \/ Return \/ Restart

SpecPoll == InitPoll /\ [][NextPoll]_vars

(***************************************************************************)
(* SpecOnce: the polls of one feature, with the history of the items       *)
(* handed to its hook.                                                     *)
(***************************************************************************)
InitOnce ==
    \E feature \in Features :
        /\ Constructed(DefaultSleep, DefaultRetries, NoIntervalFile, NoLatestFile)
        /\ notified = Watching(feature)

RetweetsOnly == notified.feature = "Retweets" /\ RetweetsStep

DirectMessagesOnly == notified.feature = "DirectMessages" /\ DirectMessagesStep

RepliesOnly == notified.feature = "Replies" /\ RepliesStep

NextOnce ==
    RetweetsOnly \/ DirectMessagesOnly \/ RepliesOnly \/ ConnectStep \/ Return \/ Restart

SpecOnce == InitOnce /\ [][NextOnce]_vars

(***************************************************************************)
(* The markers.                                                            *)
(***************************************************************************)
\* the check of the call went past its fetch (to the save and the hooks)
Fetched(name) ==
    /\ call # Idle
    /\ call.op = name
    /\ call.outcome \in {OK, "HookError"}
    /\ call.reports[1].asked

\* the marker of a feature as persisted now
Marker(name) == latestFile.sec[name]

\* C5: after checkRetweets fetched a non-empty sequence of retweets, the
\* persisted Retweets marker is the maximum identifier among the fetched
\* items, whatever the order the remote returned them in.
C5_RetweetsMarkerIsMaximum ==
    (Fetched("Retweets") /\ call.reports[1].fetched # <<>>)
        => Marker("Retweets") = IntValue(MaxOf(IdsOf(call.reports[1].fetched)))

\* the timeline items of a report that reply to the bot
Survivors(report) == SelectSeq(report.fetched, LAMBDA msg : msg.reply)

\* C6: after checkDirectMessages fetched a non-empty sequence of messages
\* the DirectMessages marker is the maximum identifier fetched, and after
\* checkReplies found a reply the Replies marker is the maximum identifier
\* among the replies (not among the whole timeline), in every remote order.
C6_MarkerIsMaximumOfNovel ==
    /\ (Fetched("DirectMessages") /\ call.reports[1].fetched # <<>>)
            => Marker("DirectMessages") = IntValue(MaxOf(IdsOf(call.reports[1].fetched)))
    /\ (Fetched("Replies") /\ Survivors(call.reports[1]) # <<>>)
            => Marker("Replies") = IntValue(MaxOf(IdsOf(Survivors(call.reports[1]))))

\* the items of s come with a smaller identifier before a larger one
Ascending(s) == Len(s) >= 2 /\ s[1].id < s[2].id

\* direct messages returned oldest first
C6_DirectMessagesOldestFirst ==
    /\ Fetched("DirectMessages")
    /\ Ascending(call.reports[1].fetched)
    /\ Marker("DirectMessages") = IntValue(call.reports[1].fetched[2].id)

\* replies returned oldest first, with a status that is no reply and has
\* the largest identifier of the timeline, after a poll of the direct
\* messages that set their marker
C6_Witness ==
    /\ Marker("DirectMessages").kind = "int"
    /\ Fetched("Replies")
    /\ Ascending(Survivors(call.reports[1]))
    /\ \E msg \in Range(call.reports[1].fetched) :
            ~msg.reply /\ msg.id = MaxOf(IdsOf(call.reports[1].fetched))
    /\ Marker("Replies") = IntValue(MaxOf(IdsOf(Survivors(call.reports[1]))))

\* C7: over any sequence of checkRetweets, checkReplies and
\* checkDirectMessages runs, failing ones included, a persisted marker
\* never decreases: every step leaves each marker that holds a number at
\* that number or a larger one.
C7_MarkersNeverDecrease ==
    [][\A f \in Features :
            Marker(f).kind = "int"
                => /\ latestFile'.sec[f].kind = "int"
                   /\ latestFile'.sec[f].val >= Marker(f).val]_vars

\* a poll that advanced a marker it had advanced before, and then failed
\* in a hook
C7_Witness ==
    \E f \in Features :
        /\ call # Idle
        /\ call.op = f
        /\ call.outcome = "HookError"
        /\ call.before.latest.sec[f].kind = "int"
        /\ Marker(f).kind = "int"
        /\ Marker(f).val > call.before.latest.sec[f].val

\* C8: over any sequence of polls of one feature, against a remote that
\* returns only the items above the since-marker it is given, each item is
\* handed to the hook of the feature at most once.
C8_NotifiedAtMostOnce == \A i \in IDs : notified.times[i] <= 1

\* the fetch of the direct messages was answered with a 403
Denied ==
    /\ call # Idle
    /\ call.op = "DirectMessages"
    /\ call.reports[1].asked
    /\ call.env.ending = "403"

C15_DenialRaised == Denied /\ call.strict /\ call.outcome = "MissingPermissionsError"

\* C25: retweets, replies and direct messages keep their markers in one
\* file, latest.ini; in any interleaved sequence of runs each of
\* checkRetweets, checkReplies and checkDirectMessages leaves the markers of
\* the other two features as they were, also when it creates the file.
C25_OtherMarkersUntouched ==
    \A f \in Features :
        (call # Idle /\ call.op = f)
            => \A g \in Features \ {f} : latestFile.sec[g] = call.before.latest.sec[g]

\* checkReplies advanced its marker in a file that held the markers of the
\* retweets and of the direct messages
C25_Witness ==
    /\ call # Idle
    /\ call.op = "Replies"
    /\ latestFile.sec["Replies"] # call.before.latest.sec["Replies"]
    /\ call.before.latest.sec["Retweets"].kind = "int"
    /\ call.before.latest.sec["DirectMessages"].kind = "int"
    /\ latestFile.sec["Retweets"] = call.before.latest.sec["Retweets"]
    /\ latestFile.sec["DirectMessages"] = call.before.latest.sec["DirectMessages"]

\* checkDirectMessages created latest.ini: the other two have no section
C25_FileCreated ==
    /\ call # Idle
    /\ call.op = "DirectMessages"
    /\ call.before.latest.state = "missing"
    /\ latestFile.state = "ok"
    /\ latestFile.sec["Retweets"] = Absent
    /\ latestFile.sec["Replies"] = Absent

\* the identifiers of s go down from each item to the next
Descending(s) == \A i \in 1 .. Len(s) - 1 : s[i].id > s[i + 1].id

\* C17: in the checks of retweets, replies and direct messages that end
\* without error, the hook is called exactly once for each novel item and
\* the calls are made in descending order of identifier, whatever the
\* order the remote returned the items in.
C17_HooksOncePerItemDescending ==
    \A f \in Features :
        (Fetched(f) /\ call.outcome = OK)
            => /\ Len(call.reports[1].hooks) = Len(call.reports[1].novel)
               /\ Range(call.reports[1].hooks) = Range(call.reports[1].novel)
               /\ Descending(call.reports[1].hooks)

\* the same for the checks that sort: replies and direct messages
C17_SortedChecksHookDescending ==
    \A f \in {"Replies", "DirectMessages"} :
        (Fetched(f) /\ call.outcome = OK)
            => /\ Len(call.reports[1].hooks) = Len(call.reports[1].novel)
               /\ Range(call.reports[1].hooks) = Range(call.reports[1].novel)
               /\ Descending(call.reports[1].hooks)

(***************************************************************************)
(* SpecFavorites: a bot polled for favorites over any recent posts with    *)
(* any favorite counts, starting from any condition of favorites.ini.      *)
(***************************************************************************)
Posts == {Status(i, FALSE, n) : i \in 1 .. MaxPosts, n \in 0 .. MaxFavorites}

PostFeeds == FeedsUpTo(MaxPosts, Posts)

FavoriteEnvs == Answering(PostFeeds) \cup Failing(PostFeeds)

\* favorites.ini as it can be found: missing, not parseable, or with the
\* section of post 1 lacking the key or holding a value that is no number
FavoritesFilesFound ==
    {NoFavoritesFile,
     [state |-> "unparseable", ledger |-> [i \in IDs |-> Absent]],
     [state |-> "ok", ledger |-> [i \in IDs |-> IF i = 1 THEN NoKey ELSE Absent]],
     [state |-> "ok", ledger |-> [i \in IDs |-> IF i = 1 THEN Text ELSE Absent]]}

InitFavorites ==
    \E found \in FavoritesFilesFound :
        /\ ConstructedOver(NoIntervalFile, NoLatestFile, NoFollowersFile, found)
        /\ notified = NothingWatched

FavoritesStep ==
    /\ call = Idle
    /\ \E cred \in CredentialsSeen :
           \E env \in Reached(cred, FavoriteEnvs) :
               CheckFavorites(cred, env, DefaultMaxMessagesLoaded)

NextFavorites == FavoritesStep \/ ConnectStep \/ Return \/ Restart

SpecFavorites == InitFavorites /\ [][NextFavorites]_vars

\* the count of a post is not the count the ledger records for it; a post
\* the ledger does not know differs when it has a favorite
Differs(known, msg) ==
    IF known.kind = "absent" THEN msg.favorite_count > 0
    ELSE known # IntValue(msg.favorite_count)

\* C12 as stated: checkFavorites reports a fetched post as a novel favorite
\* exactly when its favorite count differs from the count the ledger
\* records for it (a post absent from the ledger: when its count is > 0),
\* and the ledger then records the current count of every such post.
C12_NovelWhenCountDiffers ==
    Fetched("Favorites")
        => \A msg \in Range(call.reports[1].fetched) :
            call.before.favorites.ledger[msg.id].kind \in {"absent", "int"}
                => /\ (msg \in Range(call.reports[1].novel))
                        <=> Differs(call.before.favorites.ledger[msg.id], msg)
                   /\ Differs(call.before.favorites.ledger[msg.id], msg)
                        => favoritesFile.ledger[msg.id] = IntValue(msg.favorite_count)

\* C12 amended: a fetched post is reported as a novel favorite exactly when
\* its favorite count is > 0 and differs from the count the ledger records
\* for it; the ledger then records the current count of every reported
\* post and keeps its record of every other post, a post whose count fell
\* to 0 included.
C12_NovelWhenPositiveCountDiffers ==
    Fetched("Favorites")
        => /\ \A msg \in Range(call.reports[1].fetched) :
                /\ (msg \in Range(call.reports[1].novel))
                        <=> (msg.favorite_count > 0
                             /\ Differs(call.before.favorites.ledger[msg.id], msg))
                /\ (msg \in Range(call.reports[1].novel))
                        => favoritesFile.ledger[msg.id] = IntValue(msg.favorite_count)
           /\ \A i \in IDs \ IdsOf(call.reports[1].novel) :
                favoritesFile.ledger[i] = call.before.favorites.ledger[i]

\* one check over a post whose recorded count changed to another positive
\* count and a post whose recorded count fell to 0
C12_Witness ==
    /\ Fetched("Favorites")
    /\ \E a, c \in Range(call.reports[1].fetched) :
        /\ call.before.favorites.ledger[a.id].kind = "int"
        /\ a.favorite_count > 0
        /\ call.before.favorites.ledger[a.id].val # a.favorite_count
        /\ a \in Range(call.reports[1].novel)
        /\ favoritesFile.ledger[a.id] = IntValue(a.favorite_count)
        /\ call.before.favorites.ledger[c.id].kind = "int"
        /\ c.favorite_count = 0
        /\ c \notin Range(call.reports[1].novel)
        /\ favoritesFile.ledger[c.id] = call.before.favorites.ledger[c.id]

\* a check over a post whose recorded count is the current one
C12_SameCountSeen ==
    /\ Fetched("Favorites")
    /\ \E b \in Range(call.reports[1].fetched) :
        /\ b.favorite_count > 0
        /\ call.before.favorites.ledger[b.id] = IntValue(b.favorite_count)
        /\ b \notin Range(call.reports[1].novel)

(***************************************************************************)
(* SpecFollowers: a bot polled for new followers against any follower      *)
(* lists, with the history of the followers handed to handleNewFollower.   *)
(***************************************************************************)
FollowerEnvs == Answering(IdFeeds) \cup Failing(IdFeeds)

InitFollowers ==
    /\ ConstructedOver(NoIntervalFile, NoLatestFile, NoFollowersFile, NoFavoritesFile)
    /\ notified = Watching("NewFollowers")

FollowersStep ==
    /\ call = Idle
    /\ \E cred \in CredentialsSeen :
           \E env \in Reached(cred, FollowerEnvs) :
               CheckNewFollowers(cred, env, DefaultMaxMessagesLoaded)

FollowersAgainStep ==
    \E cred \in CredentialsSeen : CheckNewFollowersAgain(cred, DefaultMaxMessagesLoaded)

NextFollowers ==
    FollowersStep \/ FollowersAgainStep \/ ConnectStep \/ Return \/ Restart

SpecFollowers == InitFollowers /\ [][NextFollowers]_vars

\* C13: when checkNewFollowers is run twice against identical remote
\* follower data, the second run reports no novel follower, calls
\* handleNewFollower zero times and leaves the persisted set unchanged.
C13_SecondRunFindsNothing ==
    (call # Idle /\ call.op = "NewFollowersAgain")
        => /\ call.reports[1].novel = <<>>
           /\ call.reports[1].hooks = <<>>
           /\ followersFile = call.before.followers

\* a second run that fetched the followers the first run had found new
C13_Witness ==
    /\ call # Idle
    /\ call.op = "NewFollowersAgain"
    /\ call.outcome = OK
    /\ Len(call.first.novel) >= 2
    /\ call.reports[1].fetched = call.first.fetched
    /\ call.reports[1].novel = <<>>

\* the persisted known followers
Known == Range(followersFile.lines)

\* C14: over any sequence of checkNewFollowers runs with arbitrary remote
\* follower lists, an identifier once in the persisted set stays in it,
\* and a follower is reported as novel at most once: a novel follower was
\* not in the set, is in it afterwards, and no follower is handed to
\* handleNewFollower twice.
C14_FollowersKeptAndNovelOnce ==
    [][/\ Known \subseteq Range(followersFile'.lines)
       /\ (call'.op \in {"NewFollowers", "NewFollowersAgain"} /\ call' # call)
            => /\ IdsOf(call'.reports[1].novel) \cap Known = {}
               /\ IdsOf(call'.reports[1].novel) \subseteq Range(followersFile'.lines)
       /\ \A i \in IDs : notified'.times[i] <= 1]_vars

\* a run over a follower known from an earlier run, that was handed to the
\* hook then, next to a follower that is new
C14_Witness ==
    /\ call # Idle
    /\ call.op = "NewFollowers"
    /\ call.outcome = OK
    /\ \E i \in IdsOf(call.reports[1].fetched) :
            i \in Range(call.before.followers.lines) /\ notified.times[i] = 1
    /\ call.reports[1].novel # <<>>
    /\ Len(call.before.followers.lines) >= 2

(***************************************************************************)
(* SpecEach: a bot polled with one of the five checks, again and again,    *)
(* with the history of the items handed to the hook of that check.         *)
(***************************************************************************)
InitEach ==
    \E c \in CheckNames :
        /\ ConstructedOver(NoIntervalFile, NoLatestFile, NoFollowersFile, NoFavoritesFile)
        /\ notified = Watching(c)

FollowersOnly == notified.feature = "NewFollowers" /\ FollowersStep

FavoritesOnly == notified.feature = "Favorites" /\ FavoritesStep

NextEach ==
    \/ RetweetsOnly \/ DirectMessagesOnly \/ RepliesOnly
    \/ FollowersOnly \/ FavoritesOnly
    \/ ConnectStep \/ Return \/ Restart

SpecEach == InitEach /\ [][NextEach]_vars

\* the persisted state of a check reflects every novel item of the poll:
\* the followers are known, the ledger records the counts, the marker is
\* the largest identifier, so that no novel item is fetched again
Reflected(name, novel) ==
    CASE name = "NewFollowers" -> IdsOf(novel) \subseteq Range(followersFile.lines)
      [] name = "Favorites" ->
            \A msg \in Range(novel) :
                favoritesFile.ledger[msg.id] = IntValue(msg.favorite_count)
      [] OTHER -> Marker(name) = IntValue(MaxOf(IdsOf(novel)))

\* the persisted state of a check was saved from the novel items of the
\* poll: as Reflected, but a marker of retweets is the identifier of any
\* one of the novel items
Persisted(name, novel) ==
    IF name = "Retweets"
    THEN Marker(name).kind = "int" /\ Marker(name).val \in IdsOf(novel)
    ELSE Reflected(name, novel)

\* C18: in each of the five checks the updated state (marker, follower
\* set or favorite ledger) is persisted before the first hook is called,
\* so that when a hook raises, on whichever item, the persisted state
\* already reflects all the novel items of the poll.
C18_HookErrorLeavesAllNovelReflected ==
    \A c \in CheckNames :
        (call # Idle /\ call.op = c /\ call.outcome = "HookError")
            => /\ call.reports[1].novel # <<>>
               /\ Reflected(c, call.reports[1].novel)

\* the order alone: when a hook raises, the state of the check has been
\* saved from the novel items of the poll
C18_PersistedBeforeHooks ==
    \A c \in CheckNames :
        (call # Idle /\ call.op = c /\ call.outcome = "HookError")
            => /\ call.reports[1].novel # <<>>
               /\ Persisted(c, call.reports[1].novel)

\* the same as C18 for the four checks other than that of retweets
C18_OtherChecksReflectAllNovel ==
    \A c \in CheckNames \ {"Retweets"} :
        (call # Idle /\ call.op = c /\ call.outcome = "HookError")
            => Reflected(c, call.reports[1].novel)

\* the hook of check c raised on the first of two or more novel items
FirstHookRaised(c) ==
    /\ call # Idle
    /\ call.op = c
    /\ call.outcome = "HookError"
    /\ Len(call.reports[1].novel) >= 2
    /\ Len(call.reports[1].hooks) = 1

\* a check of replies whose first hook raised, after which the marker is
\* the identifier of the reply whose hook was never called
C18_RepliesHookRaised ==
    /\ FirstHookRaised("Replies")
    /\ Marker("Replies").val > call.reports[1].hooks[1].id - 1
    /\ \E msg \in Range(call.reports[1].novel) :
            msg \notin Range(call.reports[1].hooks)

C18_RetweetsHookRaised == FirstHookRaised("Retweets")

C18_DirectMessagesHookRaised == FirstHookRaised("DirectMessages")

C18_FollowersHookRaised == FirstHookRaised("NewFollowers")

C18_FavoritesHookRaised == FirstHookRaised("Favorites")

(***************************************************************************)
(* SpecLoad: the first operation of a bot constructed over state files     *)
(* found on disk, one of them possibly malformed.                          *)
(***************************************************************************)
\* the conditions latest.ini can be found in: missing, unparseable, without
\* any section, or with the section of one feature that lacks LatestSeen or
\* holds a non-numeric LatestSeen
LatestFilesFound ==
    {NoLatestFile, [NoLatestFile EXCEPT !.state = "unparseable"],
     [NoLatestFile EXCEPT !.state = "ok"]}
    \cup {[state |-> "ok", sec |-> [g \in Features |-> IF g = f THEN v ELSE Absent]] :
             f \in Features, v \in {NoKey, Text}}

StateFilesFound ==
    {<<i, NoLatestFile, NoFavoritesFile>> : i \in IntervalFilesFound}
    \cup {<<NoIntervalFile, l, NoFavoritesFile>> : l \in LatestFilesFound}
    \cup {<<NoIntervalFile, NoLatestFile, f>> : f \in FavoritesFilesFound}

InitLoad ==
    \E found \in StateFilesFound :
        /\ ConstructedOver(found[1], found[2], NoFollowersFile, found[3])
        /\ notified = NothingWatched

NextLoad ==
    \/ UpdateStep \/ RetweetsStep \/ DirectMessagesStep \/ RepliesStep
    \/ FavoritesStep \/ ConnectStep

SpecLoad == InitLoad /\ [][NextLoad]_vars

\* the exceptions raised by the loading of a state file
LoadErrors == {"ParsingError", "KeyError"}

\* the operation ended with an error of the loading of a state file: the
\* cadence counter could not be read, or the bot was connected (the
\* credentials were read without error) and a check raised
LoadRaised ==
    /\ call # Idle
    /\ call.outcome \in LoadErrors
    /\ \/ call.op = "checkForUpdates" /\ call.gate = "error"
       \/ api

\* C19: loading persisted state never raises on malformed content: with a
\* cadence counter file, a marker file or a favorite ledger that exists but
\* is unparseable, lacks the expected section or key, or holds a
\* non-numeric value, no operation ends with an error of the loading.
C19_MalformedStateNeverRaises == ~LoadRaised

\* the malformed content that is read as the default: a cadence counter
\* file without the section or the key or with a non-numeric value counts
\* as 0 (the checks are run and the count restarts from runInterval), and a
\* marker file without the section of the feature is polled from the start
C19_DefaultWhenSectionMissing ==
    /\ (/\ call # Idle
        /\ call.op = "checkForUpdates"
        /\ call.before.interval.state # "unparseable")
           => /\ call.gate = "check"
              /\ call.check
              /\ intervalFile = IntervalFileOf(IntValue(call.runInterval))
    /\ \A f \in Features :
           (/\ call # Idle
            /\ call.op = f
            /\ call.before.latest.state = "ok"
            /\ call.before.latest.sec[f] = Absent)
               => /\ ~LoadRaised
                  /\ call.outcome = OK => call.reports[1].fetched = call.env.feed

\* an unparseable cadence counter file raises out of checkForUpdates
C19_CounterRaised ==
    /\ call # Idle
    /\ call.op = "checkForUpdates"
    /\ call.before.interval.state = "unparseable"
    /\ call.outcome = "ParsingError"

\* an unparseable marker file raises out of the check of feature f
MarkerFileRaised(f) ==
    /\ call # Idle
    /\ call.op = f
    /\ call.before.latest.state = "unparseable"
    /\ call.outcome = "ParsingError"

\* a section without LatestSeen raises out of the check of feature f
MarkerKeyRaised(f) ==
    /\ call # Idle
    /\ call.op = f
    /\ call.before.latest.sec[f] = NoKey
    /\ call.outcome = "KeyError"

C19_MarkerFileRaised == MarkerFileRaised("DirectMessages")

C19_MarkerKeyRaised == MarkerKeyRaised("Retweets")

\* an unparseable favorite ledger raises out of checkFavorites
C19_LedgerFileRaised ==
    /\ call # Idle
    /\ call.op = "Favorites"
    /\ call.before.favorites.state = "unparseable"
    /\ call.outcome = "ParsingError"

\* a section of the ledger without the key raises out of checkFavorites
C19_LedgerKeyRaised ==
    /\ call # Idle
    /\ call.op = "Favorites"
    /\ call.before.favorites.ledger[1] = NoKey
    /\ call.outcome = "KeyError"

(***************************************************************************)
(* Remote failures, checked under SpecEach.                                *)
(***************************************************************************)
\* the remote failed during the fetch of the check just called: the bot
\* was connected and its state loaded, and the iteration ended in an error
\* other than a 403 that checkDirectMessages was told to ignore
RemoteFailed ==
    /\ call # Idle
    /\ call.op \in CheckNames
    /\ api
    /\ call.outcome \notin LoadErrors
    /\ \/ call.env.ending = "error"
       \/ call.env.ending = "403" /\ call.strict

C20_FavoritesFailed ==
    /\ RemoteFailed
    /\ call.op = "Favorites"
    /\ call.outcome = "TweepError"
    /\ \E i \in 1 .. Len(call.env.feed) :
           /\ call.env.feed[i].favorite_count > 0
           /\ favoritesFile.ledger[call.env.feed[i].id] = Absent

\* a 403 that checkDirectMessages was told not to ignore, after a message
C20_DenialRaised ==
    /\ RemoteFailed
    /\ call.op = "DirectMessages"
    /\ call.env.ending = "403"
    /\ call.env.feed # <<>>
    /\ call.outcome = "MissingPermissionsError"

(***************************************************************************)
(* SpecAny: a bot on which one operation is called again and again: tweet, *)
(* checkForUpdates or one of the five checks.                              *)
(***************************************************************************)
\* the operations as the calls record them
Operations == {"tweet", "checkForUpdates"} \cup CheckNames

\* the methods of the bot; the one called is kept in notified.feature, and
\* no history of notifications is kept
Methods ==
    {"tweet", "checkForUpdates", "checkRetweets", "checkDirectMessages",
     "checkReplies", "checkNewFollowers", "checkFavorites"}

InitAny ==
    \E m \in Methods :
        /\ ConstructedOver(NoIntervalFile, NoLatestFile, NoFollowersFile, NoFavoritesFile)
        /\ notified = Watching(m)

TweetOnly == notified.feature = "tweet" /\ TweetStep

UpdatesOnly == notified.feature = "checkForUpdates" /\ UpdateStep

OnlyRetweets == notified.feature = "checkRetweets" /\ RetweetsStep

OnlyDirectMessages == notified.feature = "checkDirectMessages" /\ DirectMessagesStep

OnlyReplies == notified.feature = "checkReplies" /\ RepliesStep

OnlyNewFollowers == notified.feature = "checkNewFollowers" /\ FollowersStep

OnlyFavorites == notified.feature = "checkFavorites" /\ FavoritesStep

NextAny ==
    \/ TweetOnly \/ UpdatesOnly
    \/ OnlyRetweets \/ OnlyDirectMessages \/ OnlyReplies
    \/ OnlyNewFollowers \/ OnlyFavorites
    \/ ConnectStep \/ Return \/ Restart

SpecAny == InitAny /\ [][NextAny]_vars

\* the errors of connectFromConfig
AuthenticationErrors == {"FileNotFoundError", "KeyError", "ValueError"}

\* the operation just called found the bot unconnected and credentials
\* that are missing, malformed or rejected (checkForUpdates reads them
\* only when its gate says check)
AuthenticationFailed ==
    /\ call # Idle
    /\ call.op \in Operations
    /\ ~call.before.connected
    /\ call.cred # "valid"
    /\ call.op = "checkForUpdates" => call.gate = "check"

\* C21: when tweet, a check or checkForUpdates is called while not
\* connected and the credentials are missing, malformed or rejected, the
\* error reaches the caller, the bot stays unconnected, no status is
\* submitted, no feed is requested and no hook is called.
C21_AuthenticationFailureSurfaced ==
    AuthenticationFailed
        => /\ call.outcome \in AuthenticationErrors
           /\ ~api
           /\ call.op = "tweet" => call.submissions = 0 /\ call.handled = <<>>
           /\ call.op = "checkForUpdates" => call.reports = <<>>
           /\ call.op \in CheckNames
                 => /\ ~call.reports[1].asked
                    /\ call.reports[1].hooks = <<>>
                    /\ latestFile = call.before.latest
                    /\ followersFile = call.before.followers
                    /\ favoritesFile = call.before.favorites

\* tweet called with a valid message by a bot whose credentials the
\* remote rejects
C21_Witness ==
    /\ AuthenticationFailed
    /\ call.op = "tweet"
    /\ call.cred = "rejected"
    /\ call.message \in {StringMessage(1)}
    /\ call.outcome = "ValueError"

\* checkForUpdates passing its gate with credentials that are missing
C21_UpdatesUnauthenticated ==
    /\ AuthenticationFailed
    /\ call.op = "checkForUpdates"
    /\ call.cred = "missing"
    /\ call.outcome = "FileNotFoundError"

\* a check called with malformed credentials
C21_CheckUnauthenticated ==
    /\ AuthenticationFailed
    /\ call.op = "Replies"
    /\ call.cred = "malformed"
    /\ call.outcome = "KeyError"

(***************************************************************************)
(* SpecFlags: checkForUpdates called with every combination of the five    *)
(* flags, with a runInterval that always checks (0) or checks every other  *)
(* call (1).                                                               *)
(***************************************************************************)
AllFlags == [CheckNames -> BOOLEAN]

FlagIntervals == {0, 1}

InitFlags ==
    /\ ConstructedOver(NoIntervalFile, NoLatestFile, NoFollowersFile, NoFavoritesFile)
    /\ notified = NothingWatched

FlagsStep ==
    /\ call = Idle
    /\ \E runInterval \in FlagIntervals, flags \in AllFlags, cred \in CredentialsSeen :
           \E envs \in IF cred = "valid" THEN UpdateWorlds ELSE {Quiet} :
               CheckForUpdates(runInterval, flags, cred, envs)

NextFlags == FlagsStep \/ ConnectStep \/ Return \/ Restart

SpecFlags == InitFlags /\ [][NextFlags]_vars

\* the order of the checks, as the claim gives it
FixedOrder == <<"Retweets", "NewFollowers", "Favorites", "DirectMessages", "Replies">>

\* checkForUpdates performed a real check: the gate said check and the bot
\* was connected or could connect
RealCheck ==
    /\ call # Idle
    /\ call.op = "checkForUpdates"
    /\ call.gate = "check"
    /\ call.before.connected \/ call.cred = "valid"

\* C23: when checkForUpdates performs a real check, the enabled checks run
\* in the order retweets, followers, favorites, direct messages, replies:
\* a check whose flag is false is never run, and the checks run are the
\* enabled ones in that order, all of them unless one raised, in which
\* case the run ends with that check.
C23_EnabledChecksInFixedOrder ==
    RealCheck
        => /\ \A i \in 1 .. Len(call.reports) : call.flags[call.reports[i].check]
           /\ Len(call.reports) <= Len(SelectSeq(FixedOrder, LAMBDA c : call.flags[c]))
           /\ \A i \in 1 .. Len(call.reports) :
                  call.reports[i].check = SelectSeq(FixedOrder, LAMBDA c : call.flags[c])[i]
           /\ \A i \in 1 .. Len(call.reports) - 1 : call.reports[i].outcome = OK
           /\ call.outcome = OK
                 => Len(call.reports) = Len(SelectSeq(FixedOrder, LAMBDA c : call.flags[c]))
           /\ call.outcome # OK
                 => /\ call.reports # <<>>
                    /\ call.reports[Len(call.reports)].outcome = call.outcome

\* a real check with the flags of retweets and favorites off: followers,
\* direct messages and replies were checked, in that order
C23_Witness ==
    /\ RealCheck
    /\ call.flags = [c \in CheckNames |-> c \notin {"Retweets", "Favorites"}]
    /\ Len(call.reports) = 3
    /\ call.reports[1].check = "NewFollowers"
    /\ call.reports[2].check = "DirectMessages"
    /\ call.reports[3].check = "Replies"

\* a real check with the default flags and something new everywhere: the
\* direct messages were not checked, the other four were
C23_DefaultSkipsDirectMessages ==
    /\ RealCheck
    /\ call.flags = DefaultFlags
    /\ call.outcome = OK
    /\ Len(call.reports) = 4
    /\ \A i \in 1 .. 4 : call.reports[i].novel # <<>>

(***************************************************************************)
(* Frame properties of the checks, checked under SpecAny.                  *)
(***************************************************************************)
\* the items of the feed the persisted marker of feature f lets through
PastMarker(f) ==
    {msg \in Range(call.env.feed) :
        call.before.latest.sec[f].kind = "int" => msg.id > call.before.latest.sec[f].val}

\* the remote answered the check just called and held nothing novel for
\* it: no retweet or direct message past the marker, no reply past the
\* marker, no follower that is not known, no post whose count of
\* favorites differs from the recorded one (0 when none is recorded)
NothingNew(c) ==
    /\ call # Idle
    /\ call.op = c
    /\ call.before.connected \/ call.cred = "valid"
    /\ call.env.ending = "ok"
    /\ CASE c = "NewFollowers" ->
              IdsOf(call.env.feed) \subseteq Range(call.before.followers.lines)
         [] c = "Favorites" ->
              \A msg \in Range(call.env.feed) :
                  call.before.favorites.ledger[msg.id] =
                      IF msg.favorite_count = 0 THEN Absent
                      ELSE IntValue(msg.favorite_count)
         [] c = "Replies" -> \A msg \in PastMarker(c) : ~msg.reply
         [] OTHER -> PastMarker(c) = {}

\* C24: a poll that finds no novel item leaves the persisted state as it
\* was and calls no hook: the marker of retweets, replies and direct
\* messages, the followers and the ledger of favorites are untouched, and
\* the poll ends without error with an empty result.
C24_NothingNovelNothingChanged ==
    \A c \in CheckNames :
        NothingNew(c)
            => /\ call.outcome = OK
               /\ call.reports[1].novel = <<>>
               /\ call.reports[1].hooks = <<>>
               /\ latestFile = call.before.latest
               /\ followersFile = call.before.followers
               /\ favoritesFile = call.before.favorites

\* checkRetweets polled again after it saved a marker, against a remote
\* that holds only retweets up to that marker
C24_Witness ==
    /\ NothingNew("Retweets")
    /\ call.env.feed # <<>>
    /\ call.before.latest.sec["Retweets"].kind = "int"
    /\ latestFile.sec["Retweets"] = call.before.latest.sec["Retweets"]

\* checkReplies that fetched statuses past its marker, none of them a reply
C24_NoReplyAmongFetched ==
    /\ NothingNew("Replies")
    /\ call.before.latest.sec["Replies"].kind = "int"
    /\ PastMarker("Replies") # {}

\* checkNewFollowers against followers that are all known
C24_FollowersAllKnown == NothingNew("NewFollowers") /\ call.env.feed # <<>>

\* checkFavorites against posts whose counts are all recorded
C24_FavoritesAllRecorded ==
    /\ NothingNew("Favorites")
    /\ \E msg \in Range(call.env.feed) : msg.favorite_count > 0

\* checkDirectMessages against messages up to its marker
C24_DirectMessagesAllSeen ==
    /\ NothingNew("DirectMessages")
    /\ call.env.feed # <<>>

(***************************************************************************)
(* SpecRetry: tweet step by step.  TweetBegin is the error checking of     *)
(* lines 280-289, TweetAttempt one iteration of the loop of lines 291-309  *)
(* (followed, when it is the last, by the hook of lines 316-317).  While   *)
(* the loop runs, call is the frame of tweet: its loop variable retry, the *)
(* update_status calls and the time.sleep calls made so far.               *)
(***************************************************************************)
\* tweet has ended: the record it leaves, the same as that of Tweet
TweetEnded(c, outcome, submissions, handled) ==
    [op |-> "tweet", outcome |-> outcome, before |-> c.before,
     message |-> c.message, remote |-> c.remote, cred |-> c.cred,
     submissions |-> submissions, sleeps |-> c.sleeps,
     slept |-> c.sleeps * sleep, handled |-> handled, returned |-> 0]

\* lines 280-291: the error checking, then "retry = self.retries"
TweetBegin(message, cred, remote, hookRaises) ==
    /\ call = Idle
    /\ \E c \in {[op |-> "tweeting", before |-> Now, message |-> message,
                   remote |-> remote, cred |-> cred, hookRaises |-> hookRaises,
                   retry |-> retries, submissions |-> 0, sleeps |-> 0]} :
          IF TweetErrorChecking(api, message, cred) # OK
          THEN /\ call' = TweetEnded(c, TweetErrorChecking(api, message, cred), 0, <<>>)
               /\ api' = api
          ELSE /\ call' = c
               /\ api' = TRUE
    /\ UNCHANGED <<retries, sleep, intervalFile, latestFile, followersFile,
                   favoritesFile, cadence, notified>>

\* a rate-limited attempt that leaves the frame as it was
RetriedForever(c) == c

\* lines 300-306: "retry -= 1", then the sleep before the next attempt
Retried(c) ==
    [c EXCEPT !.retry = @ - 1, !.submissions = @ + 1, !.sleeps = @ + 1]

\* one evaluation of "while retry > 0" and of the body of the loop
TweetAttempt ==
    /\ call # Idle
    /\ call.op = "tweeting"
    /\ call' =
          IF call.retry <= 0 THEN TweetEnded(call, OK, call.submissions, <<>>)
          ELSE IF Response(call.remote, call.submissions + 1) = "ok"
          THEN TweetEnded(call, IF call.hookRaises THEN "HookError" ELSE OK,
                          call.submissions + 1, <<call.remote.id>>)
          ELSE IF Response(call.remote, call.submissions + 1) # "ratelimit"
          THEN TweetEnded(call, "TweepError", call.submissions + 1, <<>>)
          ELSE IF call.retry - 1 > 0 THEN Retried(call)
          ELSE TweetEnded(call, "RateLimitRetriesExceeded", call.submissions + 1, <<>>)
    /\ UNCHANGED <<api, retries, sleep, intervalFile, latestFile, followersFile,
                   favoritesFile, cadence, notified>>

TweetBeginStep ==
    /\ call = Idle
    /\ \E message \in Messages, cred \in CredentialsSeen :
           \E remote \in IF cred = "valid" THEN TweetRemotes ELSE {AlwaysRateLimited} :
               \E hookRaises \in IF remote.answer = "ok" THEN BOOLEAN ELSE {FALSE} :
                   TweetBegin(message, cred, remote, hookRaises)

\* the client goes on, or is run again, once the operation has ended
Proceed == call # Idle /\ call.op # "tweeting" /\ (Return \/ Restart)

NextRetry == TweetBeginStep \/ TweetAttempt \/ ConnectStep \/ Proceed

\* the loop of tweet is run by the thread that called it: it goes on
SpecRetry == Init /\ [][NextRetry]_vars /\ WF_vars(TweetAttempt)

\* tweet step by step ends as tweet does
TweetEndsAsTweet ==
    (call # Idle /\ call.op = "tweet")
        => \E hookRaises \in BOOLEAN :
              \E r \in {tweet(call.before.connected, retries, call.message, call.cred,
                              call.remote, hookRaises)} :
                  /\ r.outcome = call.outcome
                  /\ r.submissions = call.submissions
                  /\ r.sleeps = call.sleeps
                  /\ r.handled = call.handled
                  /\ r.connected = api

\* tweet is in its loop
Tweeting == call # Idle /\ call.op = "tweeting"

\* tweet has ended after its error checking passed
TweetDone ==
    /\ call # Idle
    /\ call.op = "tweet"
    /\ call.before.connected \/ call.cred = "valid"
    /\ call.before.connected => ~InvalidMessage(call.message)

\* the attempts made are at least one and at most the configured retries
\* (at least 1 after the clamp of the constructor)
AttemptsBounded ==
    /\ retries >= 1
    /\ Tweeting => call.submissions < retries /\ call.retry = retries - call.submissions
    /\ TweetDone
          => /\ call.submissions >= 1
             /\ call.submissions <= retries
             /\ \/ call.outcome \in {OK, "HookError"} /\ call.handled = <<call.remote.id>>
                \/ call.outcome \in {"RateLimitRetriesExceeded", "TweepError"}
                   /\ call.handled = <<>>

\* C27: for every configured rateLimitRetries (0 and negative values being
\* clamped to 1) and every behaviour of the remote, a tweet of a valid
\* message makes at least one and at most retries submissions and always
\* terminates, with a published item or with an error: it never loops
\* forever, also when the remote rate-limits every submission.
C27_TweetTerminates == []AttemptsBounded /\ (Tweeting ~> ~Tweeting)

\* a tweet that ended with RateLimitRetriesExceeded after as many
\* submissions as the largest number of retries, all of them rate-limited
C27_Witness ==
    /\ TweetDone
    /\ call.remote.always
    /\ retries = MaxRetries
    /\ call.submissions = MaxRetries
    /\ call.sleeps = MaxRetries - 1
    /\ call.outcome = "RateLimitRetriesExceeded"

\* a bot constructed with rateLimitRetries < 1: one submission, no sleep
C27_ClampedToOneAttempt ==
    /\ TweetDone
    /\ call.remote.always
    /\ retries = 1
    /\ call.submissions = 1
    /\ call.sleeps = 0
    /\ call.outcome = "RateLimitRetriesExceeded"

====
